---------------------------- MODULE Spec2Model ----------------------------
(***************************************************************************)
(* Model of the Gemini VS Code engine: the coding-crew workflow graph      *)
(* (agents/crews/coding_crew), the task runtime of api_server.py (event    *)
(* streams, background runner, SSE reader) and the sandbox registry        *)
(* (core/sandbox_manager.py, tools/sandbox.py).                            *)
(*                                                                         *)
(* Python strings that the code concatenates or searches are sequences of  *)
(* tokens (the empty string is << >>); dictionaries are functions whose    *)
(* DOMAIN is the set of keys present, read through Get as dict.get.        *)
(***************************************************************************)
EXTENDS Integers, Sequences, FiniteSets, TLC

\* Longest plan the planner's model answer carries.
MaxPlan == 2

\* graph.py:17  "if count >= 5: # Max retries per step"
MAX_RETRIES == 5

\* Cap on Coder runs of one workflow, above anything the router allows; it
\* only keeps the state space finite when the router is changed.
CoderCallCap == MAX_RETRIES * MaxPlan + 2

\* The task id start_task generates, and an id no task was ever given.
TaskIds == {"t1"}
UnknownIds == {"bogus"}

VARIABLES
    state,             \* CodingCrewState of the running graph (dict)
    ps,                \* the ProjectState object shared by all nodes
    wf_pc,             \* node of the coding-crew graph that runs next
    branch_out,        \* patches of the parallel branches that finished
    exc,               \* exception that left the graph, "none" if none
    coder_calls,       \* number of Coder invocations so far
    runner_pc,         \* position of run_workflow_background
    active_streams,    \* keys of EventStreamManager.active_streams
    queues,            \* contents of the asyncio.Queue of each task
    active_sandboxes,  \* keys of sandbox_manager.active_sandboxes
    sandbox,           \* the StatefulSandbox object of each task
    reader_pc,         \* position of the stream_events generator
    reader_task,       \* task id the reader asked for
    frames,            \* SSE frames the reader has received
    push_log,          \* history: payloads put on each task's queue, in order
    created,           \* history: number of create_stream calls per task
    current_index,     \* GeminiKeyRotator.current_index
    active_cache_name, \* GeminiKeyRotator.active_cache_name is set
    cached_key_index,  \* GeminiKeyRotator.cached_key_index
    nodes_cache_name,  \* CodingCrewNodes.active_cache_name is set
    genai_api_key,     \* key of the last genai.configure (process-global)
    genai_lock,        \* holder of _GENAI_GLOBAL_LOCK
    call,              \* each caller's call_gemini_with_rotation frame
    cache_pc,          \* position of create_context_cache
    cache_key,         \* key index create_context_cache read
    embed_pc,          \* position of GeminiEmbeddingFunction.__call__
    embed_used,        \* history: key the last embedding request went under
    sel_count,         \* history: selections of each key
    calls_made,        \* history: number of calls begun
    task_pc,           \* admission: where each requested task stands
    cost_stats,        \* ps.cost_stats, the counters _update_cost adds to
    upd,               \* each thread's _update_cost frame
    updates_made,      \* history: number of _update_cost calls begun
    fn,                \* function applied in a run that applies one function
    fn_pc,             \* "idle", "called" or "returned"
    arg,               \* its argument
    ret,               \* its return value
    ppid,              \* what os.getppid() answers
    exit_code,         \* << >> while the process runs, <<n>> after exit(n)
    stream_timestamps, \* EventStreamManager.stream_timestamps, -1: no key
    now                \* what time.time() answers

wfvars == <<state, ps, wf_pc, branch_out, exc, coder_calls>>
rtvars == <<runner_pc, active_streams, queues, active_sandboxes, sandbox,
           push_log, created, stream_timestamps>>
rdvars == <<reader_pc, reader_task, frames>>
rotvars == <<current_index, active_cache_name, cached_key_index,
            nodes_cache_name, genai_api_key, genai_lock, call, cache_pc,
            cache_key, embed_pc, embed_used, sel_count, calls_made>>
admvars == <<task_pc>>
enginevars == <<wfvars, rtvars, rdvars, rotvars, admvars>>
auxvars == <<cost_stats, upd, updates_made, fn, fn_pc, arg, ret, ppid,
            exit_code, now>>
vars == <<state, ps, wf_pc, branch_out, exc, coder_calls, runner_pc,
          active_streams, queues, active_sandboxes, sandbox,
          reader_pc, reader_task, frames, push_log, created,
          current_index, active_cache_name, cached_key_index,
          nodes_cache_name, genai_api_key, genai_lock, call, cache_pc,
          cache_key, embed_pc, embed_used, sel_count, calls_made, task_pc,
          cost_stats, upd, updates_made, fn, fn_pc, arg, ret, ppid,
          exit_code, stream_timestamps, now>>

----------------------------------------------------------------------------
(* Dictionaries *)

\* dict.get(k, d)
Get(d, k, default) == IF k \in DOMAIN d THEN d[k] ELSE default

\* The graph runtime merges a node's partial patch into the state by key.
Merge(st, patch) == patch @@ st

----------------------------------------------------------------------------
(* Router and step manager: agents/crews/coding_crew/graph.py *)

route_step_NoCap(st) ==
    LET status == Get(st, "review_status", "reject")
        plan == Get(st, "plan", << >>)
        current_idx == Get(st, "current_step_index", 0)
    IN  IF status # "approve" THEN "reflect"
        ELSE IF current_idx + 1 < Len(plan) THEN "next_step"
        ELSE "summarize"

route_step_NoPlanCheck(st) ==
    LET status == Get(st, "review_status", "reject")
        count == Get(st, "iteration_count", 0)
    IN  IF status # "approve"
        THEN IF count >= MAX_RETRIES THEN "summarize" ELSE "reflect"
        ELSE "next_step"

route_step_AdvanceOnCap(st) ==
    LET status == Get(st, "review_status", "reject")
        count == Get(st, "iteration_count", 0)
        plan == Get(st, "plan", << >>)
        current_idx == Get(st, "current_step_index", 0)
    IN  IF status # "approve" /\ count < MAX_RETRIES THEN "reflect"
        ELSE IF current_idx + 1 < Len(plan) THEN "next_step"
        ELSE "summarize"

route_step_OffByOne(st) ==
    LET status == Get(st, "review_status", "reject")
        count == Get(st, "iteration_count", 0)
        plan == Get(st, "plan", << >>)
        current_idx == Get(st, "current_step_index", 0)
    IN  IF status # "approve"
        THEN IF count > MAX_RETRIES THEN "summarize" ELSE "reflect"
        ELSE IF current_idx + 1 < Len(plan) THEN "next_step"
        ELSE "summarize"

route_step(st) ==
    LET status == Get(st, "review_status", "reject")
        count == Get(st, "iteration_count", 0)
        plan == Get(st, "plan", << >>)
        current_idx == Get(st, "current_step_index", 0)
    IN  IF status # "approve"
        THEN IF count >= MAX_RETRIES THEN "summarize" ELSE "reflect"
        ELSE IF current_idx + 1 < Len(plan) THEN "next_step"
        ELSE "summarize"

\* add_conditional_edges("aggregator", route_step, {...})
RouteTarget(label) ==
    CASE label = "reflect" -> "reflector"
      [] label = "next_step" -> "step_manager"
      [] label = "summarize" -> "summarizer"

next_step_node_KeepCount(st) ==
    [current_step_index |-> Get(st, "current_step_index", 0) + 1,
     iteration_count |-> Get(st, "iteration_count", 0),
     reflection |-> << >>,
     review_feedback |-> << >>,
     linter_passed |-> TRUE]

next_step_node(st) ==
    [current_step_index |-> Get(st, "current_step_index", 0) + 1,
     iteration_count |-> 0,
     reflection |-> << >>,
     review_feedback |-> << >>,
     linter_passed |-> TRUE]

----------------------------------------------------------------------------
(* Tokens of the strings the nodes build and search *)

WaitingMarker == <<"[Waiting for Client Tool Execution]">>
DockerUnavailable == <<"[System] Docker unavailable.">>
FallbackPlan == <<"Execute user request directly.">>

\* The words a substring test finds inside one token.
TokenWords(tok) ==
    CASE tok = "Linter Error:" -> {"Error"}
      [] tok = "System Error:" -> {"Error"}
      [] tok = "VULNERABILITY:" -> {"VULNERABILITY"}
      [] tok = "[System] Docker unavailable." -> {"[System] Docker unavailable"}
      [] OTHER -> {tok}

\* "word in s"
HasWord(s, word) == \E i \in 1..Len(s) : word \in TokenWords(s[i])

----------------------------------------------------------------------------
(* Answers of the language model, as the nodes see them after parsing *)

\* _extract_json(planner answer): None, a dict, or a list of steps
PlanJson ==
    {[type |-> "None", items |-> << >>], [type |-> "dict", items |-> << >>]}
    \cup {[type |-> "list", items |-> [i \in 1..n |-> "step"]] : n \in 0..MaxPlan}

\* Coder answer: a tool call, a code block, or an empty answer
CoderAnswers == {"tool_call", "code", "empty"}

\* Output of the pre-flight linter: not run, clean, or a syntax error
LintResults == {"not_run", "clean", "syntax error"}

\* Outcome of sandbox.execute_code inside a live container: the script
\* prints and ends, also saves a plot, or the call into the container fails;
\* and the runs whose script overruns the timeout or dies with a traceback.
RunResults == {"output", "image", "crash"}

\* Reviewer answer: JSON with a status, or text that is not JSON
ReviewAnswers == {"approve", "reject", "unparseable"}

\* SecurityGuard answer
SecurityAnswers == {"safe", "unsafe", "unparseable"}

----------------------------------------------------------------------------
(* Nodes: agents/crews/coding_crew/nodes.py.  Each operator is the patch   *)
(* the node returns; the *_ps operators are its writes to ProjectState.    *)

planner_node_NoFallback(st, plan_json) ==
    [plan |-> plan_json.items, current_step_index |-> 0,
     project_state |-> "ps"]

planner_node(st, plan_json) ==
    LET invalid == plan_json.type # "list" \/ Len(plan_json.items) = 0
        plan == IF invalid THEN FallbackPlan ELSE plan_json.items
    IN  [plan |-> plan, current_step_index |-> 0, project_state |-> "ps"]

GeneratedCode(answer) ==
    CASE answer = "tool_call" -> "<tool_code>"
      [] answer = "code" -> "code"
      [] answer = "empty" -> ""

coder_node_NoIncrement(st, answer) ==
    [project_state |-> "ps",
     generated_code |-> GeneratedCode(answer),
     iteration_count |-> Get(st, "iteration_count", 0),
     reflection |-> << >>,
     linter_passed |-> TRUE]

coder_node(st, answer) ==
    [project_state |-> "ps",
     generated_code |-> GeneratedCode(answer),
     iteration_count |-> Get(st, "iteration_count", 0) + 1,
     reflection |-> << >>,
     linter_passed |-> TRUE]

\* coder_node, nodes.py:133-141: the feedback its prompt carries
combined_feedback(st) ==
    LET reflection == Get(st, "reflection", << >>)
        raw_feedback ==
            Get(st, "review_feedback", << >>)
            \o (IF "linter_passed" \in DOMAIN st /\ ~st["linter_passed"]
                THEN <<"PRE-FLIGHT LINTER FAILED:">>
                     \o Get(st, "execution_stderr", << >>)
                ELSE << >>)
    IN  IF reflection # << >>
        THEN <<"Tech Lead Fix Strategy:">> \o reflection
             \o <<"Review Feedback:">> \o raw_feedback
        ELSE raw_feedback

coder_node_ps_ClearsOnCode(p, answer) ==
    [p EXCEPT !.code_blocks = @ \cup {"coder"},
              !.artifacts = IF answer = "tool_call"
                            THEN @ \cup {"pending_tool_call"}
                            ELSE @ \ {"pending_tool_call"}]

coder_node_ps(p, answer) ==
    [p EXCEPT !.code_blocks = @ \cup {"coder"},
              !.artifacts = IF answer = "tool_call"
                            THEN @ \cup {"pending_tool_call"} ELSE @]

\* tools/sandbox.py execute_code: <<stdout, stderr, images>>.  The runner
\* script prints the script's stderr, and its own timeout message, to its
\* stderr; exec_run returns both streams combined, which line 127 takes as
\* stdout, and line 128 sets stderr to "".
execute_code(sb, run) ==
    IF ~sb.docker_available \/ ~sb.container
    THEN [stdout |-> << >>, stderr |-> DockerUnavailable, images |-> FALSE]
    ELSE IF run = "crash"
    THEN [stdout |-> << >>, stderr |-> <<"System Error:">>, images |-> FALSE]
    ELSE IF run = "timeout"
    THEN [stdout |-> <<"Execution Timed Out">>, stderr |-> << >>,
          images |-> FALSE]
    ELSE IF run = "traceback"
    THEN [stdout |-> <<"Traceback", "Error">>, stderr |-> << >>,
          images |-> FALSE]
    ELSE [stdout |-> <<"output">>, stderr |-> << >>, images |-> run = "image"]

\* tools/sandbox.py execute_command, as the linter sees it
execute_command(sb, lint) ==
    IF ~sb.docker_available \/ ~sb.container
    THEN "[System] Docker unavailable. Command execution skipped."
    ELSE lint

\* The linter runs when the code has "def " or "import "; lint = "not_run"
\* stands for code with neither.
LinterFailed(sb, lint) ==
    lint # "not_run" /\ execute_command(sb, lint) = "syntax error"

executor_node_NoToolCheck(st, p, registered, sb, lint, run) ==
    LET code == Get(st, "generated_code", "")
        res == execute_code(sb, run)
        passed == ~HasWord(res.stderr, "Error") /\ ~HasWord(res.stderr, "Traceback")
                  /\ ~HasWord(res.stderr, "[System] Docker unavailable")
    IN  IF code = ""
        THEN [execution_passed |-> FALSE, execution_stderr |-> <<"No code.">>]
        ELSE IF ~registered
        THEN [execution_passed |-> FALSE,
              execution_stderr |-> <<"Sandbox not found.">>]
        ELSE IF LinterFailed(sb, lint)
        THEN [execution_passed |-> FALSE,
              linter_passed |-> FALSE,
              execution_stderr |-> <<"Linter Error:", "lint_out">>,
              execution_stdout |-> << >>]
        ELSE [project_state |-> "ps",
              execution_stdout |-> res.stdout,
              execution_stderr |-> res.stderr,
              execution_passed |-> passed,
              linter_passed |-> TRUE]

executor_node(st, p, registered, sb, lint, run) ==
    LET code == Get(st, "generated_code", "")
        res == execute_code(sb, run)
        passed == ~HasWord(res.stderr, "Error") /\ ~HasWord(res.stderr, "Traceback")
                  /\ ~HasWord(res.stderr, "[System] Docker unavailable")
    IN  IF "pending_tool_call" \in p.artifacts
        THEN [project_state |-> "ps",
              execution_stdout |-> WaitingMarker,
              execution_stderr |-> << >>,
              execution_passed |-> TRUE,
              linter_passed |-> TRUE]
        ELSE IF code = ""
        THEN [execution_passed |-> FALSE, execution_stderr |-> <<"No code.">>]
        ELSE IF ~registered
        THEN [execution_passed |-> FALSE,
              execution_stderr |-> <<"Sandbox not found.">>]
        ELSE IF LinterFailed(sb, lint)
        THEN [execution_passed |-> FALSE,
              linter_passed |-> FALSE,
              execution_stderr |-> <<"Linter Error:", "lint_out">>,
              execution_stdout |-> << >>]
        ELSE [project_state |-> "ps",
              execution_stdout |-> res.stdout,
              execution_stderr |-> res.stderr,
              execution_passed |-> passed,
              linter_passed |-> TRUE]

\* "if images: ps.artifacts['image_artifacts'] = images"
executor_node_ps(st, p, registered, sb, lint, run) ==
    IF /\ "pending_tool_call" \notin p.artifacts
       /\ Get(st, "generated_code", "") # ""
       /\ registered
       /\ ~LinterFailed(sb, lint)
       /\ execute_code(sb, run).images
    THEN [p EXCEPT !.artifacts = @ \cup {"image_artifacts"}]
    ELSE p

\* state.get("linter_passed") is False
LinterFlagFalse(st) == "linter_passed" \in DOMAIN st /\ ~st["linter_passed"]

reviewer_node_IgnoresLinter(st, answer) ==
    IF answer = "unparseable"
    THEN [functional_status |-> "reject",
          functional_feedback |-> <<"Reviewer JSON Error:", "response">>]
    ELSE [functional_status |-> answer,
          functional_feedback |-> <<"feedback">>]

reviewer_node(st, answer) ==
    IF LinterFlagFalse(st)
    THEN [functional_status |-> "reject",
          functional_feedback |-> <<"Pre-flight Linter Check Failed.">>]
    ELSE IF answer = "unparseable"
    THEN [functional_status |-> "reject",
          functional_feedback |-> <<"Reviewer JSON Error:", "response">>]
    ELSE [functional_status |-> answer,
          functional_feedback |-> <<"feedback">>]

security_node_WritesStatus(st, answer) ==
    [security_feedback |->
        IF answer = "unsafe" THEN <<"VULNERABILITY:", "issues">>
        ELSE <<"No issues.">>,
     functional_status |-> IF answer = "unsafe" THEN "reject" ELSE "approve"]

security_node(st, answer) ==
    [security_feedback |->
        IF answer = "unsafe" THEN <<"VULNERABILITY:", "issues">>
        ELSE <<"No issues.">>]

aggregator_node(st) ==
    IF LinterFlagFalse(st)
    THEN [review_status |-> "reject",
          review_feedback |-> <<"Linter Failed. Code has syntax errors.">>]
    ELSE LET func_status == Get(st, "functional_status", "reject")
             func_feedback == Get(st, "functional_feedback", << >>)
             sec_feedback == Get(st, "security_feedback", << >>)
         IN  [review_status |->
                 IF HasWord(sec_feedback, "VULNERABILITY") THEN "reject"
                 ELSE func_status,
              review_feedback |->
                 <<"Functional:">> \o func_feedback
                 \o <<"Security:">> \o sec_feedback]

reflector_node(st) ==
    IF HasWord(Get(st, "review_feedback", << >>),
               "Reviewer failed to produce valid JSON")
    THEN [reflection |-> <<"retry the same code logic">>]
    ELSE [reflection |-> <<"strategy">>]

summarizer_node_Approves(st) ==
    [final_output |-> <<"summary">>, project_state |-> "ps",
     review_status |-> "approve"]

summarizer_node(st) ==
    [final_output |-> <<"summary">>, project_state |-> "ps"]

summarizer_node_ps(p) == [p EXCEPT !.final_report = TRUE]

----------------------------------------------------------------------------
(* Event streams: EventStreamManager in api_server.py *)

\* The end-of-stream sentinel close_stream enqueues (Python None).
Sentinel == "None"

\* create_stream: a new empty queue under the task's key
create_stream(q, task_id) == [q EXCEPT ![task_id] = << >>]

\* "self.stream_timestamps[task_id] = time.time()" of push_event, inside
\* its "if task_id in self.active_streams"
touch(timestamps, streams, task_id, clock) ==
    IF task_id \in streams
    THEN [timestamps EXCEPT ![task_id] = clock]
    ELSE timestamps

\* The put() calls made for a task, in call order (history of push_event and
\* close_stream, both guarded by "task_id in self.active_streams").
LogPush(log, streams, task_id, payloads) ==
    IF task_id \in streams
    THEN [log EXCEPT ![task_id] = @ \o payloads]
    ELSE log

push_event_Front(q, streams, task_id, event_type) ==
    IF task_id \in streams
    THEN [q EXCEPT ![task_id] = <<event_type>> \o @]
    ELSE q

push_event(q, streams, task_id, event_type) ==
    IF task_id \in streams
    THEN [q EXCEPT ![task_id] = Append(@, event_type)]
    ELSE q

close_stream_Twice(q, streams, task_id) ==
    IF task_id \in streams
    THEN [q EXCEPT ![task_id] = Append(Append(@, Sentinel), Sentinel)]
    ELSE q

close_stream(q, streams, task_id) ==
    IF task_id \in streams
    THEN [q EXCEPT ![task_id] = Append(@, Sentinel)]
    ELSE q

\* push_event applied to a list of event types, in order
RECURSIVE PushAll(_, _, _, _)
PushAll(q, streams, task_id, types) ==
    IF types = << >> THEN q
    ELSE PushAll(push_event(q, streams, task_id, Head(types)),
                 streams, task_id, Tail(types))

\* Events the runner pushes for one observed state value (api_server.py
\* lines 178-209): cost_stats is an object and always truthy; last_error
\* is never set by a node.
ObservedEvents(p) ==
    <<"usage_update">>
    \o (IF "pending_tool_call" \in p.artifacts THEN <<"tool_proposal">> ELSE << >>)
    \o (IF p.code_blocks # {} THEN <<"code_generated">> ELSE << >>)
    \o (IF "image_artifacts" \in p.artifacts THEN <<"image_generated">> ELSE << >>)

\* ps.artifacts.pop("pending_tool_call")
ObservedPs(p) == [p EXCEPT !.artifacts = @ \ {"pending_tool_call"}]

----------------------------------------------------------------------------
(* Sandbox registry: core/sandbox_manager.py *)

get_sandbox(task_id) == task_id \in active_sandboxes

\* tools/sandbox.py close_session: force-remove the container
close_session(sb) == [sb EXCEPT !.container = FALSE]

unregister_sandbox_NoClose(sbs, registered, task_id) ==
    [sandbox |-> sbs, active_sandboxes |-> registered \ {task_id}]

\* unregister_sandbox: close the session, then delete the entry; nothing
\* for a task that is not registered
unregister_sandbox(sbs, registered, task_id) ==
    IF task_id \in registered
    THEN [sandbox |-> [sbs EXCEPT ![task_id] = close_session(@)],
          active_sandboxes |-> registered \ {task_id}]
    ELSE [sandbox |-> sbs, active_sandboxes |-> registered]

\* A sandbox object before StatefulSandbox(task_id) is constructed
NoSandbox == [docker_available |-> FALSE, container |-> FALSE]

\* StatefulSandbox(task_id) followed by start_session(): the container runs
\* when the engine answers and the start succeeds
start_session(engine_up) ==
    [docker_available |-> engine_up, container |-> engine_up]

----------------------------------------------------------------------------
(* Key rotator: core/rotator.py.  Keys are named by their index in keys. *)

\* len(self.keys)
NumKeys == 3

\* Calls of call_gemini_with_rotation begun in one run of the specification.
MaxCalls == 3

Keys == 0..(NumKeys - 1)

\* Threads that call the model; reviewer and security_guard run in parallel.
Callers == {"reviewer", "security_guard"}

\* The max_retries argument: << >> is None (omitted), <<n>> is n.
RetryArgs == {<< >>, <<2>>}

\* What one attempt meets: a response with text, ResourceExhausted (429),
\* another exception, or a response blocked for safety (no candidates), whose
\* response.text raises.
Outcomes == {"ok", "quota", "error", "blocked"}

\* rotator.py:96-97
ResolveMaxRetries_OneCycle(max_retries) ==
    IF max_retries = << >> THEN NumKeys ELSE max_retries[1]

ResolveMaxRetries(max_retries) ==
    IF max_retries = << >> THEN NumKeys * 2 ELSE max_retries[1]

get_next_key_IgnoresCache(index, cache_active, cached_index) ==
    [key |-> index, index |-> (index + 1) % NumKeys, advanced |-> TRUE]

\* _get_next_key: the key returned and the index left behind
get_next_key(index, cache_active, cached_index) ==
    IF cache_active /\ cached_index # -1
    THEN [key |-> cached_index, index |-> index, advanced |-> FALSE]
    ELSE [key |-> index, index |-> (index + 1) % NumKeys, advanced |-> TRUE]

\* rotator.py:104-107, the key of one attempt
select_key(cached_content_name, index, cache_active, cached_index) ==
    IF cached_content_name /\ cached_index # -1
    THEN [key |-> cached_index, index |-> index, advanced |-> FALSE]
    ELSE get_next_key(index, cache_active, cached_index)

\* A frame of call_gemini_with_rotation that has not been entered
IdleCall ==
    [pc |-> "idle", key |-> -1, retries |-> 0, max_retries |-> 0,
     omitted |-> FALSE, cached_content_name |-> FALSE, last_error |-> "None",
     attempts |-> 0, advances |-> 0, used |-> -1, outcome |-> "none",
     result |-> "none"]

\* except ResourceExhausted / except Exception (rotator.py:161-178): the
\* frame after a failed attempt
after_failure(c, outcome) ==
    [c EXCEPT !.pc = "loop",
              !.retries = @ + 1,
              !.last_error = IF outcome = "quota" THEN "Quota Exceeded"
                             ELSE "str(e)",
              !.cached_content_name = FALSE]

----------------------------------------------------------------------------
(* Text functions.  A text is a sequence of lexemes: brackets, "v" for a   *)
(* JSON scalar (or a key with its value), "x" for words that are not JSON, *)
(* FENCE for the code fence (three backquotes) and the word json.           *)

\* Longest text given to _extract_json.
MaxText == 5

Texts ==
    UNION {[1..n -> {"{", "}", "[", "]", "v", "x", "FENCE", "json"}] :
              n \in 0..MaxText}

\* str.find and str.rfind for one lexeme: its first and last position, 0
\* (-1 in Python) when it does not occur
find(s, tok) ==
    IF \E i \in 1..Len(s) : s[i] = tok
    THEN CHOOSE i \in 1..Len(s) :
            s[i] = tok /\ \A j \in 1..(i - 1) : s[j] # tok
    ELSE 0

rfind(s, tok) ==
    IF \E i \in 1..Len(s) : s[i] = tok
    THEN CHOOSE i \in 1..Len(s) :
            s[i] = tok /\ \A j \in (i + 1)..Len(s) : s[j] # tok
    ELSE 0

\* json.loads: the value parsed, which is the text itself when it is one
\* JSON value, and << >> when json.loads raises
json_loads(s) ==
    LET RECURSIVE Scan(_, _)
        \* the text from position i on closes the open brackets in stack
        \* and ends there
        Scan(i, stack) ==
            IF i > Len(s) THEN FALSE
            ELSE IF s[i] \in {"{", "["}
            THEN Scan(i + 1, Append(stack, s[i]))
            ELSE IF s[i] \in {"}", "]"}
            THEN /\ stack # << >>
                 /\ stack[Len(stack)] = (IF s[i] = "}" THEN "{" ELSE "[")
                 /\ IF Len(stack) = 1 THEN i = Len(s)
                    ELSE Scan(i + 1, SubSeq(stack, 1, Len(stack) - 1))
            ELSE IF s[i] = "v"
            THEN IF stack = << >> THEN i = Len(s) ELSE Scan(i + 1, stack)
            ELSE FALSE
    IN  IF Scan(1, << >>) THEN s ELSE << >>

\* nodes.py:52-70 _extract_json; << >> is None.  Whatever json.loads
\* raises is swallowed by "except: pass" and None is returned.
extract_json(text) ==
    LET \* the group of the first match of
        \* ```(?:json)?\s*([\[\{].*?[\]\}])\s*``` starting at fence i
        From(i) == IF i + 1 <= Len(text) /\ text[i + 1] = "json"
                   THEN i + 2 ELSE i + 1
        Ends(i) == {k \in (From(i) + 1)..(Len(text) - 1) :
                       text[k] \in {"]", "}"} /\ text[k + 1] = "FENCE"}
        Starts == {i \in 1..Len(text) :
                      /\ text[i] = "FENCE"
                      /\ From(i) <= Len(text)
                      /\ text[From(i)] \in {"[", "{"}
                      /\ Ends(i) # {}}
        first == CHOOSE i \in Starts : \A j \in Starts : i <= j
        last == CHOOSE k \in Ends(first) : \A j \in Ends(first) : k <= j
        open == IF find(text, "[") # 0 THEN "[" ELSE "{"
        start == find(text, open)
        end == rfind(text, IF open = "[" THEN "]" ELSE "}")
    IN  IF Starts # {}
        THEN json_loads(SubSeq(text, From(first), last))
        ELSE IF start # 0 /\ end # 0
        THEN json_loads(SubSeq(text, start, end))
        ELSE << >>

\* What the planner holds as plan after _extract_json: None, a dict, or a
\* list with its elements, each a scalar ("step"), a list or a dict
plan_json_of(value) ==
    LET RECURSIVE Items(_, _)
        \* the elements from position i on, depth levels below the list
        Items(i, depth) ==
            IF i >= Len(value) THEN << >>
            ELSE IF value[i] \in {"[", "{"}
            THEN (IF depth = 0
                  THEN <<IF value[i] = "[" THEN "list" ELSE "dict">>
                  ELSE << >>) \o Items(i + 1, depth + 1)
            ELSE IF value[i] \in {"]", "}"} THEN Items(i + 1, depth - 1)
            ELSE (IF depth = 0 THEN <<"step">> ELSE << >>)
                 \o Items(i + 1, depth)
    IN  IF value = << >> THEN [type |-> "None", items |-> << >>]
        ELSE IF Head(value) = "{" THEN [type |-> "dict", items |-> << >>]
        ELSE [type |-> "list", items |-> Items(2, 0)]

----------------------------------------------------------------------------
(* Tool calls: core/mcp_tool_definitions.py.  A model response is a        *)
(* sequence of lexemes <<kind, name>>: <<"<", t>> is the opening tag of t, *)
(* <<"</", t>> its closing tag and <<"", w>> the word w.                    *)

\* Longest text inside one parameter element of a generated response.
MaxBody == 2

\* re.search(r"<t>\s*(.*?)\s*</t>", s, re.DOTALL): the leftmost opening
\* tag that has a closing tag after it, and the text up to the first such
\* closing tag
re_search(s, t) ==
    LET open == find(s, <<"<", t>>)
        closing == {k \in (open + 1)..Len(s) : s[k] = <<"</", t>>}
    IN  IF open = 0 \/ closing = {}
        THEN [found |-> FALSE, group |-> << >>]
        ELSE [found |-> TRUE,
              group |-> SubSeq(s, open + 1,
                               (CHOOSE k \in closing :
                                   \A j \in closing : k <= j) - 1)]

\* _extract_tag_content: between the first opening and the last closing tag
extract_tag_content(xml_snippet, tag_name) ==
    LET start_idx == find(xml_snippet, <<"<", tag_name>>)
        end_idx == rfind(xml_snippet, <<"</", tag_name>>)
    IN  IF start_idx # 0 /\ end_idx # 0 /\ end_idx > start_idx
        THEN SubSeq(xml_snippet, start_idx + 1, end_idx - 1)
        ELSE << >>

\* parse_tool_call; << >> is None, and a dict is a function on its keys
parse_tool_call(llm_response) ==
    LET match == re_search(llm_response, "tool_code")
        inner_xml == match.group
        name_match == re_search(inner_xml, "tool_name")
        tool_name == name_match.group
        params_match == re_search(inner_xml, "parameters")
        params_xml == params_match.group
        path_match == re_search(params_xml, "path")
        cmd_match == re_search(params_xml, "command")
        params ==
            IF tool_name = <<<<"", "write_to_file">>>> /\ path_match.found
            THEN [path |-> path_match.group,
                  content |-> extract_tag_content(params_xml, "content")]
            ELSE IF tool_name = <<<<"", "apply_diff">>>> /\ path_match.found
            THEN [path |-> path_match.group,
                  search_block |->
                      extract_tag_content(params_xml, "search_block"),
                  replace_block |->
                      extract_tag_content(params_xml, "replace_block")]
            ELSE IF tool_name = <<<<"", "execute_command">>>> /\ cmd_match.found
            THEN [command |-> cmd_match.group]
            ELSE << >>
    IN  IF ~match.found \/ ~name_match.found \/ ~params_match.found
        THEN << >>
        ELSE IF DOMAIN params = {} THEN << >>
        ELSE [tool |-> tool_name, params |-> params]

\* Responses that carry a tool call: a word, then the tool_code element
\* with the tool's name and its parameter elements in the documented
\* order, each present or absent; the text of a content element is any
\* words and closing-tag lookalikes, that of another element a word or
\* nothing; the call is complete, or has one structural part left out.
Responses ==
    LET Lexemes == {<<"", "x">>, <<"</", "content">>, <<"</", "parameters">>,
                    <<"</", "tool_code">>}
        Bodies == UNION {[1..n -> Lexemes] : n \in 0..MaxBody}
        Tags(tool) ==
            CASE tool = "write_to_file" -> <<"path", "content">>
              [] tool = "apply_diff" ->
                    <<"path", "search_block", "replace_block">>
              [] OTHER -> <<"command">>
        Element(t) ==
            {<< >>} \cup
            {<<<<"<", t>>>> \o body \o <<<<"</", t>>>> :
               body \in IF t = "content" THEN Bodies
                        ELSE {<< >>, <<<<"", "x">>>>}}
        RECURSIVE Elements(_, _)
        Elements(tags, i) ==
            IF i > Len(tags) THEN {<< >>}
            ELSE {e \o rest : e \in Element(tags[i]),
                              rest \in Elements(tags, i + 1)}
        Wrap(tool, p, shape) ==
            <<<<"", "x">>, <<"<", "tool_code">>>>
            \o (IF shape = "no name" THEN << >>
                ELSE <<<<"<", "tool_name">>, <<"", tool>>,
                       <<"</", "tool_name">>>>)
            \o (IF shape = "no parameters" THEN p
                ELSE <<<<"<", "parameters">>>> \o p
                     \o <<<<"</", "parameters">>>>)
            \o (IF shape = "unclosed" THEN << >>
                ELSE <<<<"</", "tool_code">>>>)
    IN  UNION {{Wrap(tool, p, shape) : p \in Elements(Tags(tool), 1)} :
               tool \in {"write_to_file", "apply_diff", "execute_command"},
               shape \in {"complete", "no name", "no parameters",
                          "unclosed"}}

----------------------------------------------------------------------------
(* Size of what a run returns: tools/sandbox.py:80-144, in KB *)

\* Largest output, in KB, a script writes to one of its streams.
MaxOutputKB == 52

\* The streams execute_code returns for a script that wrote printed KB to
\* its standard output and errors KB to its standard error.  The runner
\* prints both captured streams in full (sandbox.py:111-112), exec_run
\* returns them as one output, which is decoded whole into stdout, and
\* stderr is the empty string (sandbox.py:127-128); the two fixed
\* messages of the other paths are shorter than 1 KB.
execute_code_streams(outcome, printed, errors) ==
    CASE outcome = "unavailable" -> [stdout |-> 0, stderr |-> 1]
      [] outcome = "exception" -> [stdout |-> 0, stderr |-> 1]
      [] OTHER -> [stdout |-> printed + errors, stderr |-> 0]

----------------------------------------------------------------------------
(* Cost accounting: CodingCrewNodes._update_cost (nodes.py:41-50) *)

\* _update_cost calls begun in one run of the specification.
MaxUpdates == 3

\* The four "+=" statements of _update_cost, in program order
CostFields ==
    <<"total_input_tokens", "total_output_tokens", "total_cost",
      "request_count">>

\* core/utils.py calculate_cost, in units of the price of one input token;
\* an output token costs four times as much in the flash and the default
\* tier (0.30 / 0.075, 0.40 / 0.10).
calculate_cost(input_tokens, output_tokens) ==
    input_tokens + 4 * output_tokens

\* What each "+=" adds, from the usage of the call
Increment(usage, field) ==
    CASE field = "total_input_tokens" -> usage.prompt_tokens
      [] field = "total_output_tokens" -> usage.completion_tokens
      [] field = "total_cost" ->
            calculate_cost(usage.prompt_tokens, usage.completion_tokens)
      [] field = "request_count" -> 1

\* A thread that is not inside _update_cost
IdleUpdate ==
    [pc |-> "idle", line |-> 1, loaded |-> 0,
     usage |-> [prompt_tokens |-> 0, completion_tokens |-> 0]]

----------------------------------------------------------------------------
(* Admission: start_task requests of several clients (api_server.py) *)

\* Requests to start_task in one run; one more than the capacity of 5 the
\* admission bound speaks of.
MaxTasks == 6

AdmitIds == 1..MaxTasks

\* Tasks that start_task admitted and whose background runner has not ended
RunningTasks == {t \in AdmitIds : task_pc[t] = "running"}

----------------------------------------------------------------------------
\* The program after construction, before any request.
ProgramInit ==
    /\ state = [project_state |-> "ps"]
    /\ ps = [artifacts |-> {}, code_blocks |-> {}, final_report |-> FALSE]
    /\ wf_pc = "idle"
    /\ branch_out = << >>
    /\ exc = "none"
    /\ coder_calls = 0
    /\ runner_pc = "none"
    /\ active_streams = {}
    /\ queues = [t \in TaskIds |-> << >>]
    /\ active_sandboxes = {}
    /\ sandbox = [t \in TaskIds |-> NoSandbox]
    /\ reader_pc = "none"
    /\ reader_task = "none"
    /\ frames = << >>
    /\ push_log = [t \in TaskIds |-> << >>]
    /\ created = [t \in TaskIds |-> 0]
    /\ current_index = 0
    /\ active_cache_name = FALSE
    /\ cached_key_index = -1
    /\ nodes_cache_name = FALSE
    /\ genai_api_key = -1
    /\ genai_lock = "free"
    /\ call = [c \in Callers |-> IdleCall]
    /\ cache_pc = "idle"
    /\ cache_key = -1
    /\ embed_pc = "idle"
    /\ embed_used = -1
    /\ sel_count = [k \in Keys |-> 0]
    /\ calls_made = 0
    /\ task_pc = [t \in AdmitIds |-> "none"]
    /\ cost_stats = [total_input_tokens |-> 0, total_output_tokens |-> 0,
                     total_cost |-> 0, request_count |-> 0]
    /\ upd = [c \in Callers |-> IdleUpdate]
    /\ updates_made = 0
    /\ ppid = "parent"
    /\ exit_code = << >>
    /\ stream_timestamps = [t \in TaskIds |-> -1]
    /\ now = 0

Init ==
    /\ ProgramInit
    /\ fn = "none"
    /\ fn_pc = "idle"
    /\ arg = << >>
    /\ ret = << >>

\* One function of the program called on one argument
FunctionInit ==
    /\ ProgramInit
    /\ fn_pc = "called"
    /\ ret = << >>
    /\ \/ fn = "extract_json" /\ arg \in Texts
       \/ fn = "parse_tool_call" /\ arg \in Responses
       \/ fn = "planner_node" /\ arg \in Texts
       \/ fn = "execute_code"
          /\ arg \in [outcome : {"unavailable", "exception", "ran"},
                      printed : 0..MaxOutputKB, errors : 0..MaxOutputKB]

----------------------------------------------------------------------------
(* Workflow graph: build_coding_crew_graph in graph.py *)

PlannerNode ==
    /\ wf_pc = "planner"
    /\ \E pj \in PlanJson : state' = Merge(state, planner_node(state, pj))
    /\ wf_pc' = "coder"
    /\ UNCHANGED <<ps, branch_out, exc, coder_calls>>
    /\ UNCHANGED <<rtvars, rdvars>>
    /\ UNCHANGED <<rotvars, admvars, auxvars>>

CoderNode ==
    /\ wf_pc = "coder"
    /\ coder_calls < CoderCallCap
    /\ \E answer \in CoderAnswers :
          /\ state' = Merge(state, coder_node(state, answer))
          /\ ps' = coder_node_ps(ps, answer)
    /\ coder_calls' = coder_calls + 1
    /\ wf_pc' = "executor"
    /\ UNCHANGED <<branch_out, exc>>
    /\ UNCHANGED <<rtvars, rdvars>>
    /\ UNCHANGED <<rotvars, admvars, auxvars>>

Executor(runs) ==
    /\ wf_pc = "executor"
    /\ \E t \in TaskIds, lint \in LintResults, run \in runs :
          /\ state' = Merge(state, executor_node(state, ps, get_sandbox(t),
                                                 sandbox[t], lint, run))
          /\ ps' = executor_node_ps(state, ps, get_sandbox(t),
                                    sandbox[t], lint, run)
    /\ wf_pc' = "review"
    /\ branch_out' = << >>
    /\ UNCHANGED <<exc, coder_calls>>
    /\ UNCHANGED <<rtvars, rdvars>>
    /\ UNCHANGED <<rotvars, admvars, auxvars>>

\* The Executor on a script that prints and ends (or the call fails)
ExecutorNode == Executor(RunResults)

\* The Executor on any script
ExecutorAnyRun == Executor(RunResults \cup {"timeout", "traceback"})

\* A parallel branch finishes; when it is the last one the superstep ends,
\* both patches are merged and the join node (aggregator) is next.
FinishBranch(node, patch) ==
    LET out == Append(branch_out, [node |-> node, patch |-> patch])
    IN  IF Len(out) = 2
        THEN /\ state' = Merge(Merge(state, out[1].patch), out[2].patch)
             /\ wf_pc' = "aggregator"
             /\ branch_out' = << >>
        ELSE /\ branch_out' = out
             /\ UNCHANGED <<state, wf_pc>>

BranchDone(node) == \E i \in 1..Len(branch_out) : branch_out[i].node = node

Reviewer(answers) ==
    /\ wf_pc = "review"
    /\ ~BranchDone("reviewer")
    /\ \E answer \in answers :
          FinishBranch("reviewer", reviewer_node(state, answer))
    /\ UNCHANGED <<ps, exc, coder_calls>>
    /\ UNCHANGED <<rtvars, rdvars>>
    /\ UNCHANGED <<rotvars, admvars, auxvars>>

\* The Reviewer when the model's JSON has status approve or reject
ReviewerNode == Reviewer(ReviewAnswers)

\* The Reviewer when the model's JSON may carry another status string
ReviewerAnyStatus == Reviewer(ReviewAnswers \cup {"needs work"})

SecurityNode ==
    /\ wf_pc = "review"
    /\ ~BranchDone("security_guard")
    /\ \E answer \in SecurityAnswers :
          FinishBranch("security_guard", security_node(state, answer))
    /\ UNCHANGED <<ps, exc, coder_calls>>
    /\ UNCHANGED <<rtvars, rdvars>>
    /\ UNCHANGED <<rotvars, admvars, auxvars>>

AggregatorNode ==
    /\ wf_pc = "aggregator"
    /\ state' = Merge(state, aggregator_node(state))
    /\ wf_pc' = "route"
    /\ UNCHANGED <<ps, branch_out, exc, coder_calls>>
    /\ UNCHANGED <<rtvars, rdvars>>
    /\ UNCHANGED <<rotvars, admvars, auxvars>>

\* The conditional edge after the aggregator
RouteStep ==
    /\ wf_pc = "route"
    /\ wf_pc' = RouteTarget(route_step(state))
    /\ UNCHANGED <<state, ps, branch_out, exc, coder_calls>>
    /\ UNCHANGED <<rtvars, rdvars>>
    /\ UNCHANGED <<rotvars, admvars, auxvars>>

ReflectorNode ==
    /\ wf_pc = "reflector"
    /\ state' = Merge(state, reflector_node(state))
    /\ wf_pc' = "coder"
    /\ UNCHANGED <<ps, branch_out, exc, coder_calls>>
    /\ UNCHANGED <<rtvars, rdvars>>
    /\ UNCHANGED <<rotvars, admvars, auxvars>>

StepManagerNode ==
    /\ wf_pc = "step_manager"
    /\ state' = Merge(state, next_step_node(state))
    /\ wf_pc' = "coder"
    /\ UNCHANGED <<ps, branch_out, exc, coder_calls>>
    /\ UNCHANGED <<rtvars, rdvars>>
    /\ UNCHANGED <<rotvars, admvars, auxvars>>

SummarizerNode ==
    /\ wf_pc = "summarizer"
    /\ state' = Merge(state, summarizer_node(state))
    /\ ps' = summarizer_node_ps(ps)
    /\ wf_pc' = "END"
    /\ UNCHANGED <<branch_out, exc, coder_calls>>
    /\ UNCHANGED <<rtvars, rdvars>>
    /\ UNCHANGED <<rotvars, admvars, auxvars>>

\* Nodes that call the model: the call raises AllKeysExhaustedError when
\* every attempt failed (rotator.py:182), or the node raises another error.
ModelNodes == {"planner", "coder", "review", "reflector", "summarizer"}
ErrorKinds == {"AllKeysExhaustedError", "Exception"}

NodeRaises ==
    /\ wf_pc \in ModelNodes
    /\ \E e \in ErrorKinds : exc' = e
    /\ wf_pc' = "raised"
    /\ UNCHANGED <<state, ps, branch_out, coder_calls>>
    /\ UNCHANGED <<rtvars, rdvars>>
    /\ UNCHANGED <<rotvars, admvars, auxvars>>

----------------------------------------------------------------------------
(* Task runtime: start_task and run_workflow_background in api_server.py *)

\* start_task: create the stream, hand the runner to the background tasks
\* and return the task id.
StartTask ==
    /\ runner_pc = "none"
    /\ \E t \in TaskIds :
          /\ active_streams' = active_streams \cup {t}
          /\ queues' = create_stream(queues, t)
          /\ created' = [created EXCEPT ![t] = @ + 1]
          /\ stream_timestamps' = [stream_timestamps EXCEPT ![t] = now]
    /\ runner_pc' = "queued"
    /\ UNCHANGED <<active_sandboxes, sandbox, push_log>>
    /\ UNCHANGED <<wfvars, rdvars>>
    /\ UNCHANGED <<rotvars, admvars, auxvars>>

\* The runner up to the try block: status event, sandbox created, started
\* and registered.
RunnerStart ==
    /\ runner_pc = "queued"
    /\ \E t \in TaskIds, engine_up \in BOOLEAN :
          /\ queues' = push_event(queues, active_streams, t, "status")
          /\ push_log' = LogPush(push_log, active_streams, t, <<"status">>)
          /\ stream_timestamps' = touch(stream_timestamps, active_streams, t, now)
          /\ sandbox' = [sandbox EXCEPT ![t] = start_session(engine_up)]
          /\ active_sandboxes' = active_sandboxes \cup {t}
    /\ runner_pc' = "astream"
    /\ UNCHANGED <<active_streams, created>>
    /\ UNCHANGED <<wfvars, rdvars>>
    /\ UNCHANGED <<rotvars, admvars, auxvars>>

\* Body of "async for event in workflow_app.astream(..., stream_mode=values)".
\* workflow_app (workflow/graph.py) has the single node coding_crew, so it
\* yields the input state and then the state the coding crew returned.
RunnerObserve ==
    /\ runner_pc = "astream"
    /\ wf_pc \in {"idle", "END"}
    /\ \E t \in TaskIds :
          /\ queues' = PushAll(queues, active_streams, t, ObservedEvents(ps))
          /\ push_log' = LogPush(push_log, active_streams, t, ObservedEvents(ps))
          /\ stream_timestamps' = touch(stream_timestamps, active_streams, t, now)
    /\ ps' = ObservedPs(ps)
    /\ IF wf_pc = "idle"
       THEN wf_pc' = "planner" /\ runner_pc' = runner_pc
       ELSE wf_pc' = wf_pc /\ runner_pc' = "finally"
    /\ UNCHANGED <<state, branch_out, exc, coder_calls>>
    /\ UNCHANGED <<active_streams, active_sandboxes, sandbox, created>>
    /\ UNCHANGED rdvars
    /\ UNCHANGED <<rotvars, admvars, auxvars>>

\* The two except clauses: both push one error event.
runner_except(q, streams, task_id, error) ==
    push_event(q, streams, task_id, "error")

RunnerExcept ==
    /\ runner_pc = "astream"
    /\ wf_pc = "raised"
    /\ \E t \in TaskIds :
          /\ queues' = runner_except(queues, active_streams, t, exc)
          /\ push_log' = LogPush(push_log, active_streams, t, <<"error">>)
          /\ stream_timestamps' = touch(stream_timestamps, active_streams, t, now)
    /\ runner_pc' = "finally"
    /\ UNCHANGED <<active_streams, active_sandboxes, sandbox, created>>
    /\ UNCHANGED <<wfvars, rdvars>>
    /\ UNCHANGED <<rotvars, admvars, auxvars>>

runner_finally_NoFinish(q, streams, task_id) ==
    close_stream(q, streams, task_id)

\* finally: push finish, then close the stream
runner_finally(q, streams, task_id) ==
    close_stream(push_event(q, streams, task_id, "finish"), streams, task_id)

RunnerFinally ==
    /\ runner_pc = "finally"
    /\ \E t \in TaskIds :
          /\ queues' = runner_finally(queues, active_streams, t)
          /\ push_log' = LogPush(push_log, active_streams, t,
                                 <<"finish", Sentinel>>)
          /\ stream_timestamps' = touch(stream_timestamps, active_streams, t, now)
    /\ runner_pc' = "done"
    /\ UNCHANGED <<active_streams, active_sandboxes, sandbox, created>>
    /\ UNCHANGED <<wfvars, rdvars>>
    /\ UNCHANGED <<rotvars, admvars, auxvars>>

----------------------------------------------------------------------------
(* SSE endpoint: stream_events in api_server.py *)

Frame(event, data) == [event |-> event, data |-> data]

\* The frame event_generator yields for one dequeued payload
FrameOf(payload) ==
    IF payload = Sentinel THEN Frame("finish", "end")
    ELSE Frame(payload, "payload")

\* A client requests /api/stream/{task_id}
ReaderConnect ==
    /\ reader_pc = "none"
    /\ \E id \in TaskIds \cup UnknownIds :
          /\ reader_task' = id
          /\ IF id \in active_streams
             THEN /\ reader_pc' = "streaming"
                  /\ frames' = frames
             ELSE /\ reader_pc' = "ended"
                  /\ frames' = <<Frame("error", "Stream not found"),
                                 Frame("finish", "end")>>
    /\ UNCHANGED <<wfvars, rtvars>>
    /\ UNCHANGED <<rotvars, admvars, auxvars>>

\* One turn of the loop that finds a payload in the queue
ReaderGet ==
    /\ reader_pc = "streaming"
    /\ queues[reader_task] # << >>
    /\ LET payload == Head(queues[reader_task])
       IN  /\ frames' = Append(frames, FrameOf(payload))
           /\ reader_pc' = IF payload = Sentinel THEN "ended" ELSE "streaming"
    /\ queues' = [queues EXCEPT ![reader_task] = Tail(@)]
    /\ UNCHANGED reader_task
    /\ UNCHANGED <<runner_pc, active_streams, active_sandboxes, sandbox,
                   push_log, created, stream_timestamps>>
    /\ UNCHANGED wfvars
    /\ UNCHANGED <<rotvars, admvars, auxvars>>

ReaderDisconnect_CancelsTask ==
    /\ reader_pc = "streaming"
    /\ reader_pc' = "disconnected"
    /\ runner_pc' = "done"
    /\ UNCHANGED <<reader_task, frames>>
    /\ UNCHANGED <<active_streams, queues, active_sandboxes, sandbox,
                   push_log, created, stream_timestamps>>
    /\ UNCHANGED <<wfvars, rotvars, admvars, auxvars>>

\* request.is_disconnected() answers true
ReaderDisconnect ==
    /\ reader_pc = "streaming"
    /\ reader_pc' = "disconnected"
    /\ UNCHANGED <<reader_task, frames>>
    /\ UNCHANGED <<wfvars, rtvars>>
    /\ UNCHANGED <<rotvars, admvars, auxvars>>

----------------------------------------------------------------------------
(* Model calls: call_gemini_with_rotation, create_context_cache (rotator.py) *)
(* and the embedding function of tools/memory.py, which configures the same *)
(* process-global genai client under a lock of its own.                     *)

UnchangedCache == UNCHANGED <<active_cache_name, cached_key_index,
                              nodes_cache_name, cache_pc, cache_key>>
UnchangedEmbed == UNCHANGED <<embed_pc, embed_used>>
UnchangedEngine == UNCHANGED <<wfvars, rtvars, rdvars, admvars, auxvars>>

\* Entry of call_gemini_with_rotation; the nodes pass their own
\* active_cache_name as cached_content_name.
Begin(callers) ==
    /\ calls_made < MaxCalls
    /\ \E c \in callers, mr \in RetryArgs :
          /\ call[c].pc = "idle"
          /\ call' = [call EXCEPT ![c] =
                [IdleCall EXCEPT !.pc = "loop",
                                 !.max_retries = ResolveMaxRetries(mr),
                                 !.omitted = (mr = << >>),
                                 !.cached_content_name = nodes_cache_name]]
    /\ calls_made' = calls_made + 1
    /\ UNCHANGED <<current_index, genai_api_key, genai_lock, sel_count>>
    /\ UnchangedCache /\ UnchangedEmbed /\ UnchangedEngine

\* Any thread calls
CallBegin == Begin(Callers)

\* One thread calls, one call after another
CallBeginAlone == Begin({"reviewer"})

\* "while retries < max_retries": pick the key of the next attempt
CallSelect ==
    /\ \E c \in Callers :
          /\ call[c].pc = "loop"
          /\ call[c].retries < call[c].max_retries
          /\ LET sel == select_key(call[c].cached_content_name, current_index,
                                   active_cache_name, cached_key_index)
             IN  /\ call' = [call EXCEPT
                        ![c].pc = "acquire",
                        ![c].key = sel.key,
                        ![c].attempts = @ + 1,
                        ![c].advances = IF sel.advanced THEN @ + 1 ELSE @]
                 /\ current_index' = sel.index
                 /\ sel_count' = [sel_count EXCEPT ![sel.key] = @ + 1]
    /\ UNCHANGED <<genai_api_key, genai_lock, calls_made>>
    /\ UnchangedCache /\ UnchangedEmbed /\ UnchangedEngine

\* The loop ends with every attempt failed: raise AllKeysExhaustedError
CallRaise ==
    /\ \E c \in Callers :
          /\ call[c].pc = "loop"
          /\ ~(call[c].retries < call[c].max_retries)
          /\ call' = [call EXCEPT ![c].pc = "raised",
                                  ![c].result = "AllKeysExhaustedError"]
    /\ UNCHANGED <<current_index, genai_api_key, genai_lock, sel_count,
                   calls_made>>
    /\ UnchangedCache /\ UnchangedEmbed /\ UnchangedEngine

CallConfigure_NoLock ==
    /\ \E c \in Callers :
          /\ call[c].pc = "acquire"
          /\ genai_lock' = c
          /\ genai_api_key' = call[c].key
          /\ call' = [call EXCEPT ![c].pc = "configured"]
    /\ UNCHANGED <<current_index, sel_count, calls_made>>
    /\ UnchangedCache /\ UnchangedEmbed /\ UnchangedEngine

\* "with _GENAI_GLOBAL_LOCK: genai.configure(api_key=key)"
CallConfigure ==
    /\ genai_lock = "free"
    /\ \E c \in Callers :
          /\ call[c].pc = "acquire"
          /\ genai_lock' = c
          /\ genai_api_key' = call[c].key
          /\ call' = [call EXCEPT ![c].pc = "configured"]
    /\ UNCHANGED <<current_index, sel_count, calls_made>>
    /\ UnchangedCache /\ UnchangedEmbed /\ UnchangedEngine

\* model.generate_content and response.text: the request goes out under
\* the key the process-global client holds at that moment; the lock is
\* released on return and on exception.
Generate(outcomes) ==
    /\ \E c \in Callers, outcome \in outcomes :
          /\ call[c].pc = "configured"
          /\ LET sent == [call[c] EXCEPT !.used = genai_api_key,
                                         !.outcome = outcome]
             IN  IF outcome = "ok"
                 THEN /\ call' = [call EXCEPT ![c] =
                            [sent EXCEPT !.pc = "returned",
                                         !.result = "response.text"]]
                      /\ UNCHANGED active_cache_name
                 ELSE /\ call' = [call EXCEPT ![c] = after_failure(sent, outcome)]
                      /\ active_cache_name' =
                            IF outcome = "quota" /\ call[c].cached_content_name
                            THEN FALSE ELSE active_cache_name
    /\ genai_lock' = "free"
    /\ UNCHANGED <<current_index, genai_api_key, sel_count, calls_made>>
    /\ UNCHANGED <<cached_key_index, nodes_cache_name, cache_pc, cache_key>>
    /\ UnchangedEmbed /\ UnchangedEngine

\* An attempt meets any outcome
CallGenerate == Generate(Outcomes)

\* Every attempt is answered (no failing attempts)
CallAnswered == Generate({"ok"})

\* The caller takes the result; its thread may call again.
CallEnd ==
    /\ \E c \in Callers :
          /\ call[c].pc \in {"returned", "raised"}
          /\ call' = [call EXCEPT ![c] = IdleCall]
    /\ UNCHANGED <<current_index, genai_api_key, genai_lock, sel_count,
                   calls_made>>
    /\ UnchangedCache /\ UnchangedEmbed /\ UnchangedEngine

\* _ensure_repo_map calls create_context_cache while the nodes hold no
\* cache name; line 51 reads the key at current_index without a lock.
CacheBegin ==
    /\ cache_pc = "idle"
    /\ ~nodes_cache_name
    /\ cache_key' = current_index
    /\ cache_pc' = "has_key"
    /\ UNCHANGED <<current_index, active_cache_name, cached_key_index,
                   nodes_cache_name, genai_api_key, genai_lock, call,
                   sel_count, calls_made>>
    /\ UnchangedEmbed /\ UnchangedEngine

\* The locked block of create_context_cache: content too short, cache
\* created (name and current_index recorded), or the request failed.
CacheCreate ==
    /\ cache_pc = "has_key"
    /\ genai_lock = "free"
    /\ genai_api_key' = cache_key
    /\ \E res \in {"short", "created", "failed"} :
          IF res = "created"
          THEN /\ active_cache_name' = TRUE
               /\ cached_key_index' = current_index
               /\ nodes_cache_name' = TRUE
          ELSE UNCHANGED <<active_cache_name, cached_key_index,
                           nodes_cache_name>>
    /\ cache_pc' = "idle"
    /\ UNCHANGED <<current_index, genai_lock, call, cache_key, sel_count,
                   calls_made>>
    /\ UnchangedEmbed /\ UnchangedEngine

\* tools/memory.py:28-31: under _EMBED_LOCK, configure the embedding key
\* (GEMINI_API_KEYS[0], api_server.py:77)
EmbedConfigure ==
    /\ embed_pc = "idle"
    /\ genai_api_key' = 0
    /\ embed_pc' = "configured"
    /\ UNCHANGED <<current_index, genai_lock, call, sel_count, calls_made,
                   embed_used>>
    /\ UnchangedCache /\ UnchangedEngine

\* tools/memory.py:33-43: genai.embed_content for the batch
EmbedRequest ==
    /\ embed_pc = "configured"
    /\ embed_used' = genai_api_key
    /\ embed_pc' = "idle"
    /\ UNCHANGED <<current_index, genai_api_key, genai_lock, call, sel_count,
                   calls_made>>
    /\ UnchangedCache /\ UnchangedEngine

----------------------------------------------------------------------------
(* _update_cost as the threads of the parallel branches run it: each "+="  *)
(* on ps.cost_stats is a read of the attribute, an addition and a write,   *)
(* and no lock is held (nodes.py:46-49).                                   *)

\* A node's thread enters _update_cost(ps, usage) with the usage of its
\* call, whose token counts are drawn from 0..2
UpdateBegin ==
    /\ updates_made < MaxUpdates
    /\ \E c \in Callers, i \in 0..2, o \in 0..2 :
          /\ upd[c].pc = "idle"
          /\ upd' = [upd EXCEPT ![c] =
                [pc |-> "load", line |-> 1, loaded |-> 0,
                 usage |-> [prompt_tokens |-> i, completion_tokens |-> o]]]
    /\ updates_made' = updates_made + 1
    /\ UNCHANGED cost_stats
    /\ UNCHANGED <<enginevars, fn, fn_pc, arg, ret, ppid, exit_code, now>>

\* The read and the addition of the current "+=" statement
UpdateLoad ==
    /\ \E c \in Callers :
          /\ upd[c].pc = "load"
          /\ LET field == CostFields[upd[c].line]
             IN  upd' = [upd EXCEPT
                    ![c].pc = "store",
                    ![c].loaded = cost_stats[field]
                                  + Increment(upd[c].usage, field)]
    /\ UNCHANGED <<cost_stats, updates_made>>
    /\ UNCHANGED <<enginevars, fn, fn_pc, arg, ret, ppid, exit_code, now>>

\* The write of the current "+=" statement; after the fourth the call returns
UpdateStore ==
    /\ \E c \in Callers :
          /\ upd[c].pc = "store"
          /\ cost_stats' =
                [cost_stats EXCEPT ![CostFields[upd[c].line]] = upd[c].loaded]
          /\ upd' = [upd EXCEPT ![c] =
                IF upd[c].line = Len(CostFields) THEN IdleUpdate
                ELSE [@ EXCEPT !.pc = "load", !.line = @ + 1]]
    /\ UNCHANGED updates_made
    /\ UNCHANGED <<enginevars, fn, fn_pc, arg, ret, ppid, exit_code, now>>

----------------------------------------------------------------------------
(* Calls of single functions *)

\* self._extract_json(response_text)
ExtractJson ==
    /\ fn = "extract_json"
    /\ fn_pc = "called"
    /\ ret' = extract_json(arg)
    /\ fn_pc' = "returned"
    /\ UNCHANGED <<fn, arg>>
    /\ UNCHANGED <<enginevars, cost_stats, upd, updates_made, ppid, exit_code,
                   now>>

\* MCPToolRegistry.parse_tool_call(response_text)
ParseToolCall ==
    /\ fn = "parse_tool_call"
    /\ fn_pc = "called"
    /\ ret' = parse_tool_call(arg)
    /\ fn_pc' = "returned"
    /\ UNCHANGED <<fn, arg>>
    /\ UNCHANGED <<enginevars, cost_stats, upd, updates_made, ppid, exit_code,
                   now>>

\* planner_node on the text the model answered.  Printing the plan takes
\* step[:60] of every step (nodes.py:100-101), which raises TypeError on
\* a step that is a JSON object.
PlannerOnText ==
    /\ fn = "planner_node"
    /\ fn_pc = "called"
    /\ LET plan_json == plan_json_of(extract_json(arg))
           patch == planner_node(state, plan_json)
       IN  ret' = IF \E i \in 1..Len(patch.plan) : patch.plan[i] = "dict"
                  THEN [raised |-> "TypeError"]
                  ELSE patch
    /\ fn_pc' = "returned"
    /\ UNCHANGED <<fn, arg>>
    /\ UNCHANGED <<enginevars, cost_stats, upd, updates_made, ppid, exit_code,
                   now>>

\* DockerSandbox.execute_code(code), as far as the sizes returned
ExecuteCode ==
    /\ fn = "execute_code"
    /\ fn_pc = "called"
    /\ ret' = execute_code_streams(arg.outcome, arg.printed, arg.errors)
    /\ fn_pc' = "returned"
    /\ UNCHANGED <<fn, arg>>
    /\ UNCHANGED <<enginevars, cost_stats, upd, updates_made, ppid, exit_code,
                   now>>

----------------------------------------------------------------------------
(* Stale streams: EventStreamManager.cleanup_stale_streams                  *)
(* (api_server.py:112-127).  Time is counted in half hours.                 *)

\* Last value of the clock.
MaxClock == 4

\* api_server.py:118  "if now - ts > 3600": one hour, in half hours
StaleAfter == 2

to_remove_AtLimit(timestamps, clock) ==
    {tid \in TaskIds :
        timestamps[tid] # -1 /\ clock - timestamps[tid] >= StaleAfter}

\* The task ids the sweep collects from stream_timestamps
to_remove(timestamps, clock) ==
    {tid \in TaskIds :
        timestamps[tid] # -1 /\ clock - timestamps[tid] > StaleAfter}

\* unregister_sandbox applied to each collected task id
RECURSIVE UnregisterAll(_, _, _)
UnregisterAll(sbs, registered, tids) ==
    IF tids = {} THEN [sandbox |-> sbs, active_sandboxes |-> registered]
    ELSE LET tid == CHOOSE x \in tids : TRUE
             r == unregister_sandbox(sbs, registered, tid)
         IN  UnregisterAll(r.sandbox, r.active_sandboxes, tids \ {tid})

\* Time passes
Tick ==
    /\ now < MaxClock
    /\ now' = now + 1
    /\ UNCHANGED <<enginevars, cost_stats, upd, updates_made, fn, fn_pc, arg,
                   ret, ppid, exit_code>>

\* One round of the sweeper after its sleep: the collected streams and
\* their timestamps are deleted and their sandboxes unregistered.  A
\* reader that holds a deleted queue keeps it.
CleanupStaleStreams ==
    /\ LET stale == to_remove(stream_timestamps, now)
           r == UnregisterAll(sandbox, active_sandboxes, stale)
       IN  /\ active_streams' = active_streams \ stale
           /\ stream_timestamps' =
                 [tid \in TaskIds |->
                     IF tid \in stale THEN -1 ELSE stream_timestamps[tid]]
           /\ sandbox' = r.sandbox
           /\ active_sandboxes' = r.active_sandboxes
    /\ UNCHANGED <<runner_pc, queues, push_log, created>>
    /\ UNCHANGED <<wfvars, rdvars, rotvars, admvars, auxvars>>

----------------------------------------------------------------------------
(* End of the engine process: api_server.py:132-151 and                    *)
(* core/sandbox_manager.py:24-39                                            *)

\* cleanup_all_sandboxes, the handler registered with atexit: close the
\* session of every registered sandbox
cleanup_all_sandboxes(sbs, registered) ==
    [t \in DOMAIN sbs |->
        IF t \in registered THEN close_session(sbs[t]) ELSE sbs[t]]

\* The process that started the engine ends: the engine is re-parented to
\* init or to another reaper
ParentVanishes ==
    /\ exit_code = << >>
    /\ ppid = "parent"
    /\ ppid' \in {"init", "reaper"}
    /\ UNCHANGED <<enginevars, cost_stats, upd, updates_made, fn, fn_pc, arg,
                   ret, exit_code, now>>

\* parent_monitor, one poll that finds the parent changed: os._exit(0)
\* ends the process at once, without the atexit handlers.  A poll that
\* finds the parent unchanged sleeps and changes nothing.
ParentMonitor ==
    /\ exit_code = << >>
    /\ ppid # "parent" \/ ppid = "init"
    /\ exit_code' = <<0>>
    /\ UNCHANGED <<enginevars, cost_stats, upd, updates_made, fn, fn_pc, arg,
                   ret, ppid, now>>

\* The server is stopped and the interpreter exits: its atexit handlers
\* run, cleanup_all_sandboxes among them
InterpreterExit ==
    /\ exit_code = << >>
    /\ sandbox' = cleanup_all_sandboxes(sandbox, active_sandboxes)
    /\ active_sandboxes' = {}
    /\ exit_code' = <<0>>
    /\ UNCHANGED <<wfvars, rdvars, rotvars, admvars, runner_pc,
                   active_streams, queues, push_log, created,
                   stream_timestamps>>
    /\ UNCHANGED <<cost_stats, upd, updates_made, fn, fn_pc, arg, ret, ppid,
                   now>>

----------------------------------------------------------------------------
(* Admission of several tasks *)

\* start_task for a new request: the handler takes no permit and refuses
\* nothing; it creates the stream, schedules the runner and returns the id.
AdmitTask ==
    /\ \E t \in AdmitIds :
          /\ task_pc[t] = "none"
          /\ task_pc' = [task_pc EXCEPT ![t] = "running"]
    /\ UNCHANGED <<wfvars, rtvars, rdvars, rotvars, auxvars>>

\* run_workflow_background of an admitted task returns (normally or after
\* an error); it releases nothing.
RunnerEnds ==
    /\ \E t \in AdmitIds :
          /\ task_pc[t] = "running"
          /\ task_pc' = [task_pc EXCEPT ![t] = "done"]
    /\ UNCHANGED <<wfvars, rtvars, rdvars, rotvars, auxvars>>

----------------------------------------------------------------------------
(* Specifications *)

WorkflowStep ==
    \/ PlannerNode \/ CoderNode \/ ExecutorNode \/ ReviewerNode
    \/ SecurityNode \/ AggregatorNode \/ RouteStep \/ ReflectorNode
    \/ StepManagerNode \/ SummarizerNode

RunnerStep == RunnerStart \/ RunnerObserve \/ RunnerExcept \/ RunnerFinally

Next ==
    \/ StartTask
    \/ RunnerStart
    \/ RunnerObserve
    \/ RunnerExcept
    \/ RunnerFinally
    \/ PlannerNode
    \/ CoderNode
    \/ ExecutorNode
    \/ ReviewerNode
    \/ SecurityNode
    \/ AggregatorNode
    \/ RouteStep
    \/ ReflectorNode
    \/ StepManagerNode
    \/ SummarizerNode
    \/ NodeRaises
    \/ ReaderConnect
    \/ ReaderGet
    \/ ReaderDisconnect

Spec == Init /\ [][Next]_vars

\* The engine alone, with no client on the stream endpoint.
EngineNext ==
    \/ StartTask
    \/ RunnerStart
    \/ RunnerObserve
    \/ RunnerExcept
    \/ RunnerFinally
    \/ PlannerNode
    \/ CoderNode
    \/ ExecutorNode
    \/ ReviewerNode
    \/ SecurityNode
    \/ AggregatorNode
    \/ RouteStep
    \/ ReflectorNode
    \/ StepManagerNode
    \/ SummarizerNode
    \/ NodeRaises

\* The event loop runs every background task it was given and every node
\* of a running graph; a model call returns or raises after its bounded
\* retries (rotator.py:102).
FairSpec ==
    Init /\ [][EngineNext]_vars
         /\ WF_vars(RunnerStep \/ WorkflowStep \/ NodeRaises)

\* The engine when every model call returns an answer: no node raises.
AnsweredNext ==
    \/ StartTask
    \/ RunnerStart
    \/ RunnerObserve
    \/ RunnerFinally
    \/ PlannerNode
    \/ CoderNode
    \/ ExecutorNode
    \/ ReviewerNode
    \/ SecurityNode
    \/ AggregatorNode
    \/ RouteStep
    \/ ReflectorNode
    \/ StepManagerNode
    \/ SummarizerNode

AnsweredSpec ==
    Init /\ [][AnsweredNext]_vars /\ WF_vars(RunnerStep \/ WorkflowStep)

\* One thread's calls of the model client, every outcome possible, with
\* cache creation.
RotatorNext ==
    \/ CallBeginAlone
    \/ CallSelect
    \/ CallRaise
    \/ CallConfigure
    \/ CallGenerate
    \/ CallEnd
    \/ CacheBegin
    \/ CacheCreate

RotatorSpec == Init /\ [][RotatorNext]_vars

\* Concurrent threads calling the model client with no failing attempt,
\* with cache creation and the embedder of another task's indexing.
ConcurrentNext ==
    \/ CallBegin
    \/ CallSelect
    \/ CallConfigure
    \/ CallAnswered
    \/ CallEnd
    \/ CacheBegin
    \/ CacheCreate
    \/ EmbedConfigure
    \/ EmbedRequest

ConcurrentSpec == Init /\ [][ConcurrentNext]_vars

\* Concurrent threads calling the model client, every outcome possible,
\* one call after another on each thread.
OverlapSpec ==
    Init /\ [][\/ CallBegin
               \/ CallSelect
               \/ CallRaise
               \/ CallConfigure
               \/ CallGenerate
               \/ CallEnd]_vars

\* Clients starting tasks while earlier tasks run.
AdmissionNext == AdmitTask \/ RunnerEnds

AdmissionSpec == Init /\ [][AdmissionNext]_vars

\* Single functions applied to every argument within the bounds.
FunctionSpec == FunctionInit /\ [][ExtractJson \/ ParseToolCall \/ PlannerOnText \/ ExecuteCode]_vars

\* The engine on any script and any Reviewer status.
CrewSpec ==
    Init /\ [][\/ StartTask
               \/ RunnerStart
               \/ RunnerObserve
               \/ RunnerExcept
               \/ RunnerFinally
               \/ PlannerNode
               \/ CoderNode
               \/ ExecutorAnyRun
               \/ ReviewerAnyStatus
               \/ SecurityNode
               \/ AggregatorNode
               \/ RouteStep
               \/ ReflectorNode
               \/ StepManagerNode
               \/ SummarizerNode
               \/ NodeRaises]_vars

\* The engine while time passes and the sweeper runs.
SweeperSpec ==
    Init /\ [][\/ StartTask
               \/ RunnerStart
               \/ RunnerObserve
               \/ RunnerExcept
               \/ RunnerFinally
               \/ PlannerNode
               \/ CoderNode
               \/ Executor({"output"})
               \/ Reviewer({"approve", "reject"})
               \/ SecurityNode
               \/ AggregatorNode
               \/ RouteStep
               \/ ReflectorNode
               \/ StepManagerNode
               \/ SummarizerNode
               \/ NodeRaises
               \/ Tick
               \/ CleanupStaleStreams]_vars

\* The engine process until it ends, its parent vanishing at any moment.
ProcessSpec ==
    Init /\ [][\/ exit_code = << >> /\ EngineNext
               \/ ParentVanishes
               \/ ParentMonitor
               \/ InterpreterExit]_vars

\* The threads of the Reviewer and the SecurityGuard branch (and of the
\* nodes that run alone, one call after another) accounting their calls.
CostSpec == Init /\ [][UpdateBegin \/ UpdateLoad \/ UpdateStore]_vars

\* The engine with a client on the stream endpoint; the event loop runs
\* the runner and the graph whatever the client does.
ClientNext ==
    \/ StartTask
    \/ RunnerStart
    \/ RunnerObserve
    \/ RunnerExcept
    \/ RunnerFinally
    \/ PlannerNode
    \/ CoderNode
    \/ ExecutorNode
    \/ ReviewerNode
    \/ SecurityNode
    \/ AggregatorNode
    \/ RouteStep
    \/ ReflectorNode
    \/ StepManagerNode
    \/ SummarizerNode
    \/ NodeRaises
    \/ ReaderConnect
    \/ ReaderGet
    \/ ReaderDisconnect

ClientSpec ==
    Init /\ [][ClientNext]_vars
         /\ WF_vars(RunnerStep \/ WorkflowStep \/ NodeRaises)

----------------------------------------------------------------------------
(* Names used by the properties *)

plan == Get(state, "plan", << >>)
currentStepIndex == Get(state, "current_step_index", 0)
iterationCount == Get(state, "iteration_count", 0)
reviewStatus == Get(state, "review_status", "reject")

\* Events a task's queue has been given so far, in push order: those the
\* reader took from it followed by those still in it.
\* The reader's queue lookup found a stream (it was not answered with
\* "Stream not found").
ReaderFoundStream ==
    /\ reader_pc # "none"
    /\ frames = << >> \/ frames[1].data # "Stream not found"

Delivered(t) ==
    IF reader_task = t /\ ReaderFoundStream
    THEN [i \in 1..Len(frames) |->
            IF frames[i].data = "end" THEN Sentinel ELSE frames[i].event]
    ELSE << >>

Pushed(t) == Delivered(t) \o queues[t]

Positions(s, x) == {i \in 1..Len(s) : s[i] = x}

FinishFrames == {i \in 1..Len(frames) : frames[i].event = "finish"}

----------------------------------------------------------------------------
(* Properties *)

C2_IterationCap == wf_pc = "route" => iterationCount <= MAX_RETRIES

C2_Witness ==
    /\ wf_pc = "route"
    /\ iterationCount = MAX_RETRIES
    /\ currentStepIndex >= 1

\* C3: the router takes exactly the ordered decision: not approved goes to
\* summarize when iterationCount >= 5 and to reflect otherwise; approved goes
\* to nextStep when currentStepIndex + 1 < len(plan) and to summarize
\* otherwise.
C3_Decision ==
    IF reviewStatus # "approve"
    THEN IF iterationCount >= 5 THEN "summarizer" ELSE "reflector"
    ELSE IF currentStepIndex + 1 < Len(plan) THEN "step_manager"
    ELSE "summarizer"

C3_RouterDecision ==
    [][(wf_pc = "route" /\ wf_pc' # "route") => wf_pc' = C3_Decision]_vars

C3_Witness ==
    /\ wf_pc = "summarizer"
    /\ reviewStatus # "approve"
    /\ iterationCount = 5
    /\ currentStepIndex + 1 < Len(plan)

\* C4: once the Planner has run, 0 <= currentStepIndex <= len(plan).
C4_StepIndexRange ==
    "plan" \in DOMAIN state =>
        /\ "current_step_index" \in DOMAIN state
        /\ 0 <= currentStepIndex
        /\ currentStepIndex <= Len(plan)

C4_Witness ==
    /\ "plan" \in DOMAIN state
    /\ currentStepIndex = Len(plan) - 1
    /\ currentStepIndex >= 1
    /\ wf_pc = "END"

\* C5: currentStepIndex never decreases and changes only in the step
\* manager, by exactly 1; the Reflector leaves it alone and every Coder run
\* leaves it alone and raises iterationCount by exactly 1.
C5_PlanMonotone ==
    [][/\ currentStepIndex' >= currentStepIndex
       /\ currentStepIndex' # currentStepIndex =>
             (wf_pc = "step_manager" /\ currentStepIndex' = currentStepIndex + 1)
       /\ (wf_pc = "reflector" /\ wf_pc' = "coder") =>
             (currentStepIndex' = currentStepIndex
              /\ iterationCount' = iterationCount)
       /\ (wf_pc = "coder" /\ wf_pc' = "executor") =>
             (currentStepIndex' = currentStepIndex
              /\ iterationCount' = iterationCount + 1)]_vars

C5_Witness ==
    /\ wf_pc = "executor"
    /\ currentStepIndex = 1
    /\ iterationCount = 2

\* C6: the step that advances currentStepIndex also sets iterationCount to
\* 0, empties reflection and reviewFeedback and sets linterPassed, so a
\* plan step is entered with iterationCount 0 and its first Coder run
\* leaves iterationCount 1.
C6_StepReset ==
    [][/\ currentStepIndex' # currentStepIndex =>
             /\ state'["iteration_count"] = 0
             /\ state'["reflection"] = << >>
             /\ state'["review_feedback"] = << >>
             /\ state'["linter_passed"] = TRUE
       /\ (wf_pc \in {"planner", "step_manager"} /\ wf_pc' = "coder") =>
             iterationCount' = 0
       /\ (wf_pc = "coder" /\ wf_pc' = "executor" /\ iterationCount = 0) =>
             iterationCount' = 1]_vars

C6_Witness ==
    /\ wf_pc = "executor"
    /\ currentStepIndex = 1
    /\ iterationCount = 1
    /\ state["review_feedback"] = << >>

\* C7: a reader that drains an opened stream to its end has received
\* exactly one finish frame.
C7_OneFinishFrame ==
    (reader_pc = "ended" /\ reader_task \in active_streams) =>
        Cardinality(FinishFrames) = 1

\* C8: every admitted task eventually pushes finish, whether the workflow
\* completes or raises; a pushed error is followed by the finish, finish is
\* pushed once, and only the end-of-stream sentinel follows it.
C8_Ordered(t) ==
    /\ \A i \in Positions(Pushed(t), "finish") :
          \A j \in (i + 1)..Len(Pushed(t)) : Pushed(t)[j] = Sentinel
    /\ runner_pc = "done" =>
          /\ Cardinality(Positions(Pushed(t), "finish")) = 1
          /\ \A i \in Positions(Pushed(t), "error") :
                \E j \in Positions(Pushed(t), "finish") : i < j
    /\ exc # "none" /\ runner_pc \in {"finally", "done"} =>
          Positions(Pushed(t), "error") # {}

C9_RunnerCleanup ==
    \A t \in TaskIds :
        runner_pc = "done" =>
            /\ Positions(Pushed(t), Sentinel) # {}
            /\ ~get_sandbox(t)

\* C10: from the return of start_task until the finish event the registry
\* holds a sandbox for the task; once the runner is through, the sandbox is
\* out of the registry and its container is gone.
C10_SandboxLiveness ==
    \A t \in TaskIds :
        /\ (t \in active_streams /\ Positions(Pushed(t), "finish") = {}) =>
              get_sandbox(t)
        /\ runner_pc = "done" =>
              (~get_sandbox(t) /\ ~sandbox[t].container)

\* C11: at most MAX_CONCURRENT_TASKS (5) tasks are admitted and running at
\* the same time.
C11_AdmissionBound == Cardinality(RunningTasks) <= 5

\* Number of key selections made so far
RECURSIVE SumCounts(_)
SumCounts(S) ==
    IF S = {} THEN 0
    ELSE LET k == CHOOSE x \in S : TRUE
         IN  sel_count[k] + SumCounts(S \ {k})

\* C12: with no failing attempt, after N key selections by concurrent
\* callers every one of the K keys has been selected at least floor(N/K)
\* times.
C12_RoundRobin ==
    \A k \in Keys : sel_count[k] >= SumCounts(Keys) \div NumKeys

C14_QuotaFailover ==
    \A c \in Callers :
        (call[c].pc = "returned" /\ call[c].last_error = "Quota Exceeded") =>
            call[c].advances = call[c].attempts

\* C15: every model request goes out under the key its own caller selected
\* for that attempt.
C15_NoKeyLeak ==
    \A c \in Callers : call[c].used # -1 => call[c].used = call[c].key

\* C16: an attempt whose response is blocked for safety ends the call at
\* once with the marker text as a success.
C16_SafetyBlocked ==
    \A c \in Callers :
        call[c].outcome = "blocked" =>
            /\ call[c].pc = "returned"
            /\ call[c].result = "[Blocked by Safety Filters]"

\* C17: the frames a reader has received from a task's stream are, in
\* order, the frames of the first payloads put on that task's queue.
C17_Fifo ==
    (ReaderFoundStream /\ reader_task \in TaskIds) =>
        /\ Len(frames) <= Len(push_log[reader_task])
        /\ \A i \in 1..Len(frames) :
              frames[i] = FrameOf(push_log[reader_task][i])

C17_Witness ==
    /\ ReaderFoundStream
    /\ reader_pc = "ended"
    /\ Len(frames) >= 5
    /\ \E i \in 1..Len(frames) : frames[i].event = "code_generated"

C20_ClosedRemoved ==
    \A t \in TaskIds :
        Positions(push_log[t], Sentinel) # {} => t \notin active_streams

\* C21: no counter of a task's costStats (input tokens, output tokens, cost,
\* request count) ever decreases, also while the Reviewer and SecurityGuard
\* branches update them concurrently.
C21_CostMonotone ==
    [][\A i \in 1..Len(CostFields) :
          cost_stats'[CostFields[i]] >= cost_stats[CostFields[i]]]_vars

\* C22: when the Executor ran the code in a sandbox whose container engine
\* is unavailable, stdout is empty, stderr carries the engine-unavailable
\* marker, executionPassed is false and the Aggregator's reviewStatus of
\* that iteration is reject.
C22_UnavailableRejected ==
    \A t \in TaskIds :
        (/\ wf_pc = "route"
         /\ get_sandbox(t)
         /\ ~sandbox[t].docker_available
         /\ "pending_tool_call" \notin ps.artifacts
         /\ Get(state, "generated_code", "") # "") =>
            /\ state["execution_stdout"] = << >>
            /\ HasWord(state["execution_stderr"], "[System] Docker unavailable")
            /\ state["execution_passed"] = FALSE
            /\ reviewStatus = "reject"

\* C23: after an Executor run whose script overran the timeout or whose
\* output contains "Error" or "Traceback", stderr reports it and
\* executionPassed is false; the workflow has not been cancelled and goes
\* on to the review.
C23_FailedRunReported ==
    LET out == Get(state, "execution_stdout", << >>)
               \o Get(state, "execution_stderr", << >>)
        err == Get(state, "execution_stderr", << >>)
        Bad == {"Execution Timed Out", "Error", "Traceback"}
    IN  (/\ wf_pc = "review"
         /\ "pending_tool_call" \notin ps.artifacts
         /\ Get(state, "generated_code", "") # ""
         /\ \E w \in Bad : HasWord(out, w)) =>
            /\ \E w \in Bad : HasWord(err, w)
            /\ state["execution_passed"] = FALSE
            /\ exc = "none"

\* C24: when the Aggregator has run, reviewStatus is reject if the linter
\* failed, the security feedback contains "VULNERABILITY" or
\* functionalStatus is not approve, and approve otherwise; reviewFeedback
\* is the functional feedback followed by the security feedback (under
\* their labels).
C24_AggregatorRule ==
    LET func_status == Get(state, "functional_status", "reject")
        func_feedback == Get(state, "functional_feedback", << >>)
        sec_feedback == Get(state, "security_feedback", << >>)
        IsText(tok) == tok \notin {"Functional:", "Security:"}
    IN  wf_pc = "route" =>
            /\ reviewStatus =
                  IF \/ LinterFlagFalse(state)
                     \/ HasWord(sec_feedback, "VULNERABILITY")
                     \/ func_status # "approve"
                  THEN "reject" ELSE "approve"
            /\ SelectSeq(state["review_feedback"], IsText)
                  = func_feedback \o sec_feedback

C26_JsonRecovery ==
    LET Block(i) ==
            \* content of the fenced block opened by the fence at i
            LET closing == {k \in (i + 1)..Len(arg) : arg[k] = "FENCE"}
                skip == IF i + 1 <= Len(arg) /\ arg[i + 1] = "json"
                        THEN 2 ELSE 1
            IN  IF closing = {} THEN << >>
                ELSE SubSeq(arg, i + skip,
                            (CHOOSE k \in closing :
                                \A j \in closing : k <= j) - 1)
        Between(open, close) ==
            IF find(arg, open) = 0 THEN << >>
            ELSE SubSeq(arg, find(arg, open), rfind(arg, close))
        Fences == {i \in 1..Len(arg) : arg[i] = "FENCE"}
        Tagged == {i \in Fences : i + 1 <= Len(arg) /\ arg[i + 1] = "json"}
        First(S) == CHOOSE i \in S : \A j \in S : i <= j
        Candidates ==
            <<IF Tagged = {} THEN << >> ELSE Block(First(Tagged)),
              IF Fences = {} THEN << >> ELSE Block(First(Fences)),
              Between("{", "}"),
              Between("[", "]")>>
        Valid == {n \in 1..4 : json_loads(Candidates[n]) # << >>}
        Noise(lo, hi) == \A i \in lo..hi : arg[i] = "x"
    IN  (fn = "extract_json" /\ fn_pc = "returned") =>
            /\ ret = IF Valid = {} THEN << >> ELSE Candidates[First(Valid)]
            /\ \A a \in 1..Len(arg), b \in 1..Len(arg) :
                  (/\ a < b
                   /\ arg[a] = "{"
                   /\ json_loads(SubSeq(arg, a, b)) # << >>
                   /\ Noise(1, a - 1)
                   /\ Noise(b + 1, Len(arg))) =>
                      ret = SubSeq(arg, a, b)

\* C27: for a complete write_to_file call with a path and a content
\* element, whatever closing-tag lookalikes the content holds,
\* parse_tool_call returns as content the text between the first opening
\* and the last closing content tag of the response.
C27_ContentSlice ==
    LET n == Len(arg)
        first == find(arg, <<"<", "content">>)
        last == rfind(arg, <<"</", "content">>)
    IN  (/\ fn = "parse_tool_call" /\ fn_pc = "returned"
         /\ n >= 11
         /\ SubSeq(arg, 2, 7) = <<<<"<", "tool_code">>, <<"<", "tool_name">>,
                                  <<"", "write_to_file">>,
                                  <<"</", "tool_name">>,
                                  <<"<", "parameters">>, <<"<", "path">>>>
         /\ first # 0
         /\ SubSeq(arg, n - 2, n) = <<<<"</", "content">>,
                                      <<"</", "parameters">>,
                                      <<"</", "tool_code">>>>)
        => /\ DOMAIN ret # {}
           /\ ret.params.content = SubSeq(arg, first + 1, last - 1)

\* C28: parse_tool_call returns a tool call only for a response that has
\* the tool_code, tool_name and parameters elements and an element for
\* every required parameter of the named tool.
C28_RequiredParameters ==
    LET Has(t) == /\ find(arg, <<"<", t>>) # 0
                  /\ rfind(arg, <<"</", t>>) > find(arg, <<"<", t>>)
        Required(tool) ==
            CASE tool = <<<<"", "write_to_file">>>> -> {"path", "content"}
              [] tool = <<<<"", "apply_diff">>>> ->
                    {"path", "search_block", "replace_block"}
              [] tool = <<<<"", "execute_command">>>> -> {"command"}
              [] OTHER -> {}
    IN  (fn = "parse_tool_call" /\ fn_pc = "returned" /\ DOMAIN ret # {})
        => /\ Has("tool_code") /\ Has("tool_name") /\ Has("parameters")
           /\ \A p \in Required(ret.tool) :
                 p \in DOMAIN ret.params /\ Has(p)

\* C29: each stream execute_code returns is at most the 50 KB limit plus
\* the truncation marker (under 1 KB) long, whatever the script wrote.
C29_OutputBounded ==
    (fn = "execute_code" /\ fn_pc = "returned")
        => ret.stdout <= 50 + 1 /\ ret.stderr <= 50 + 1

\* C30: when the engine exits after its parent has vanished, the exit
\* code is 0 and no registered sandbox is left with a container.
C30_OrphanExitCleans ==
    [][(ppid # "parent" /\ exit_code = << >> /\ exit_code' # << >>)
          => /\ exit_code' = <<0>>
             /\ \A t \in active_sandboxes : ~sandbox'[t].container]_vars

C32_SweeperPurgesStale ==
    [][\A t \in TaskIds :
          /\ (created'[t] # created[t] \/ push_log'[t] # push_log[t])
                => stream_timestamps'[t] = now
          /\ (t \in active_streams /\ t \notin active_streams')
                => /\ now - stream_timestamps[t] > StaleAfter
                   /\ \A u \in active_streams' :
                         ~(now - stream_timestamps[u] > StaleAfter)
                   /\ t \notin active_sandboxes'
                   /\ ~sandbox'[t].container]_vars

\* The stream of a task that is still running has been purged
C32_Witness ==
    /\ created["t1"] = 1
    /\ "t1" \notin active_streams
    /\ stream_timestamps["t1"] = -1
    /\ runner_pc = "astream"

\* C33: when the pre-flight linter fails, the Executor returns
\* linter_passed and execution_passed false with the linter output and
\* without a run in the sandbox; the Reviewer's result is the fixed reject
\* that needs no model answer; the Aggregator rejects; and the feedback of
\* the next Coder run carries the linter error.
C33_LinterShortCircuit ==
    [][/\ (wf_pc = "executor" /\ wf_pc' = "review" /\ LinterFlagFalse(state'))
            => /\ ~state'["execution_passed"]
               /\ state'["execution_stdout"] = << >>
               /\ Head(state'["execution_stderr"]) = "Linter Error:"
               /\ ps' = ps
       /\ (wf_pc = "review" /\ wf_pc' = "aggregator" /\ LinterFlagFalse(state))
            => /\ state'["functional_status"] = "reject"
               /\ state'["functional_feedback"] =
                     <<"Pre-flight Linter Check Failed.">>
       /\ (wf_pc = "aggregator" /\ wf_pc' = "route" /\ LinterFlagFalse(state))
            => state'["review_status"] = "reject"
       /\ (wf_pc = "coder" /\ wf_pc' = "executor" /\ LinterFlagFalse(state))
            => \E i \in 1..Len(combined_feedback(state)) :
                  /\ combined_feedback(state)[i] = "Linter Error:"
                  /\ i > 1
                  /\ combined_feedback(state)[i - 1] =
                        "PRE-FLIGHT LINTER FAILED:"]_vars

\* The Coder is about to run again after an iteration the linter failed
C33_Witness ==
    /\ wf_pc = "coder"
    /\ LinterFlagFalse(state)
    /\ Get(state, "review_status", "none") = "reject"
    /\ Get(state, "reflection", << >>) # << >>

\* C34: an Executor run that finds pending_tool_call in the artifacts
\* returns the waiting marker as stdout, an empty stderr and
\* execution_passed true, and runs nothing in the sandbox; and whenever
\* the Executor is reached with a tool call as the generated code, the
\* entry is there.
C34_ToolCallNotExecuted ==
    [][/\ (wf_pc = "executor" /\ wf_pc' = "review"
           /\ "pending_tool_call" \in ps.artifacts)
            => /\ state'["execution_stdout"] = WaitingMarker
               /\ state'["execution_stderr"] = << >>
               /\ state'["execution_passed"]
               /\ ps' = ps
       /\ (wf_pc' = "executor" /\ state'["generated_code"] = "<tool_code>")
            => "pending_tool_call" \in ps'.artifacts]_vars

\* The Executor has run on a tool call of the Coder
C34_Witness ==
    /\ wf_pc = "review"
    /\ Get(state, "generated_code", "") = "<tool_code>"
    /\ Get(state, "execution_stdout", << >>) = WaitingMarker

\* C35: the patch the Planner returns has a non-empty plan and
\* current_step_index 0, and the plan is the single-step fallback when
\* what _extract_json found in the answer is nothing, not a list, or an
\* empty list.
C35_PlanNeverEmpty ==
    (fn = "planner_node" /\ fn_pc = "returned" /\ "plan" \in DOMAIN ret)
        => LET found == extract_json(arg)
           IN  /\ ret.plan # << >>
               /\ ret.current_step_index = 0
               /\ (found = << >> \/ Head(found) # "[" \/ found = <<"[", "]">>)
                     <=> ret.plan = FallbackPlan

\* The Planner fell back on an answer that holds an empty list
C35_Witness ==
    /\ fn = "planner_node"
    /\ fn_pc = "returned"
    /\ extract_json(arg) = <<"[", "]">>
    /\ ret.plan = FallbackPlan

\* C36: a Reviewer answer that is not JSON gives a reject whose feedback
\* notes the parse error, and no exception; and the Reflector, given that
\* feedback, returns the fixed request to retry the same code.
C36_ParseErrorRetry ==
    [][/\ (wf_pc = "aggregator" /\ wf_pc' = "route"
           /\ HasWord(Get(state, "functional_feedback", << >>),
                      "Reviewer JSON Error:"))
            => /\ state'["review_status"] = "reject"
               /\ HasWord(state'["review_feedback"], "Reviewer JSON Error:")
               /\ exc' = "none"
       /\ (wf_pc = "reflector" /\ wf_pc' = "coder"
           /\ HasWord(Get(state, "review_feedback", << >>),
                      "Reviewer JSON Error:"))
            => state'["reflection"] = <<"retry the same code logic">>]_vars

\* C37: at most one thread is between genai.configure and the return of
\* its request, that thread holds _GENAI_GLOBAL_LOCK, and a thread that
\* is choosing a key, backing off after a failure or done does not.
C37_OneRequestInFlight ==
    LET InFlight == {c \in Callers : call[c].pc = "configured"}
    IN  /\ Cardinality(InFlight) <= 1
        /\ \A c \in InFlight : genai_lock = c
        /\ \A c \in Callers \ InFlight : genai_lock # c

\* One thread's request is in flight while the other, after a failed
\* attempt, waits for the lock
C37_Witness ==
    /\ call["reviewer"].pc = "configured"
    /\ call["security_guard"].pc = "acquire"
    /\ call["security_guard"].retries > 0

\* C38: while the rotator has an active cache and a cached key index, an
\* attempt gets the cache-bound key and current_index stays; a quota
\* error on an attempt made with a cache name clears the call's cache
\* name and the active cache, after which an attempt gets the key at
\* current_index and advances it; any other failure clears the call's
\* cache name only.
C38_CacheBoundKey ==
    [][\A c \in Callers :
          /\ (call[c].pc = "loop" /\ call'[c].pc = "acquire"
              /\ active_cache_name /\ cached_key_index # -1)
                => /\ call'[c].key = cached_key_index
                   /\ current_index' = current_index
          /\ (call[c].pc = "loop" /\ call'[c].pc = "acquire"
              /\ ~active_cache_name /\ ~call[c].cached_content_name)
                => /\ call'[c].key = current_index
                   /\ current_index' = (current_index + 1) % NumKeys
          /\ (call[c].pc = "configured" /\ call'[c].pc = "loop"
              /\ call[c].cached_content_name)
                => /\ ~call'[c].cached_content_name
                   /\ IF call'[c].outcome = "quota"
                      THEN ~active_cache_name'
                      ELSE active_cache_name' = active_cache_name]_vars

\* After a failure that was not a quota error, a later attempt of the
\* same call has the cache-bound key again and the index never moved
C38_Witness ==
    \E c \in Callers :
        /\ call[c].pc = "acquire"
        /\ call[c].retries >= 2
        /\ call[c].last_error = "str(e)"
        /\ ~call[c].cached_content_name
        /\ active_cache_name
        /\ call[c].key = cached_key_index
        /\ call[c].advances = 0

\* Number of tool_proposal events among the put() calls of one task
C39_ToolProposals(log) ==
    LET IsProposal(e) == e = "tool_proposal"
    IN  Len(SelectSeq(log, IsProposal))

\* C39: pending_tool_call leaves the artifacts only in the runner's
\* observation of a state value, never in a step of a workflow node, and
\* that observation puts exactly one tool_proposal event; a tool_proposal
\* is put only by a step that removes the entry, and the entry is set only
\* by a Coder run whose answer is a tool call, so no tool call is proposed
\* twice; and every Executor run that finds the entry, whatever code the
\* Coder generated last, returns the waiting marker with
\* execution_passed true and leaves the entry in place.
C39_ToolCallSticky ==
    [][/\ ("pending_tool_call" \in ps.artifacts
           /\ "pending_tool_call" \notin ps'.artifacts)
            => /\ runner_pc = "astream"
               /\ wf_pc \in {"idle", "END"}
               /\ \A t \in active_streams :
                     C39_ToolProposals(push_log'[t])
                         = C39_ToolProposals(push_log[t]) + 1
       /\ \A t \in TaskIds :
             C39_ToolProposals(push_log'[t]) # C39_ToolProposals(push_log[t])
                => /\ "pending_tool_call" \in ps.artifacts
                   /\ "pending_tool_call" \notin ps'.artifacts
                   /\ C39_ToolProposals(push_log'[t])
                          = C39_ToolProposals(push_log[t]) + 1
       /\ ("pending_tool_call" \notin ps.artifacts
           /\ "pending_tool_call" \in ps'.artifacts)
            => /\ wf_pc = "coder"
               /\ state'["generated_code"] = "<tool_code>"
       /\ (wf_pc = "executor" /\ wf_pc' # "executor"
           /\ "pending_tool_call" \in ps.artifacts)
            => /\ wf_pc' = "review"
               /\ state'["execution_stdout"] = WaitingMarker
               /\ state'["execution_passed"]
               /\ state'["linter_passed"]
               /\ "pending_tool_call" \in ps'.artifacts]_vars

\* The crew has ended after an Executor run that skipped plain code
\* because an earlier tool call was still pending, and the runner has
\* then proposed that tool call once
C39_Witness ==
    /\ runner_pc \in {"finally", "done"}
    /\ C39_ToolProposals(push_log["t1"]) = 1
    /\ Get(state, "generated_code", "") = "code"
    /\ Get(state, "execution_stdout", << >>) = WaitingMarker
    /\ Get(state, "iteration_count", 0) >= 2

\* The router sent a rejected step to the Summarizer
C40_Forced == wf_pc \in {"summarizer", "END"} /\ reviewStatus # "approve"

\* The put() calls of a task whose workflow reached END: status, the two
\* observed state values, finish and the sentinel; the events of a state
\* value depend on project_state alone.
C40_EndLog(log) ==
    LET last == IF Positions(log, "tool_proposal") # {}
                THEN [ps EXCEPT !.artifacts = @ \cup {"pending_tool_call"}]
                ELSE ps
    IN  log = <<"status", "usage_update">> \o ObservedEvents(last)
              \o <<"finish", Sentinel>>

============================================================================
